---------------------------- MODULE Spec2Model ----------------------------
(***************************************************************************)
(* Slack request authentication (complaint_counter/authentication.py) and  *)
(* the AWS Lambda endpoint built on it (complaint_counter/aws_lambda.py).  *)
(*                                                                         *)
(* Python str values are sequences of one-character strings, so that       *)
(* int(), the f-string rendering of an int, parse_qs and json.dumps are    *)
(* computed character by character as the library computes them.           *)
(***************************************************************************)
EXTENDS Integers, Sequences, FiniteSets, TLC

VARIABLES
    check,      \* the SlackAuthenticationCheck instance: secret, version, request_leeway
    environ,    \* os.environ of the Lambda process
    clock,      \* the wall clock, what time.time() returns
    request,    \* the request (event) dict handed to the code
    pc,         \* "idle", "received" (a request waits), "checked" or "handled"
    now,        \* the clock value the call read, until its caller is done
    outcome,    \* how the last SlackAuthenticationCheck.__call__ ended
    response,   \* what the last lambda_handler invocation returned or raised
    calls,      \* the dynamodb client calls of the last lambda_handler invocation
    table       \* number of items in the CurtisComplaints table

vars == <<check, environ, clock, request, pc, now, outcome, response, calls, table>>

-----------------------------------------------------------------------------
(* Bounds of the model *)

\* How many seconds the clock may advance past Epoch
MaxTicks == 1

\* How many items the table may hold before put_item is no longer exercised
MaxItems == 2

-----------------------------------------------------------------------------
(* Program constants *)

\* request_leeway=300, the default of SlackAuthenticationCheck.__init__
DefaultLeeway == 300

\* TIMESTAMP of the Slack documentation example used by the tests
Epoch == 1531420618

\* version="v0", the default of SlackAuthenticationCheck.__init__
DefaultVersion ==
    <<"v","0">>

\* SlackAuthenticationCheck.required_headers, in the order the loop visits them
XSlackRequestTimestamp ==
    <<"X","-","S","l","a","c","k","-","R","e","q","u","e","s","t","-","T","i","m","e","s","t","a","m","p">>

XSlackSignature ==
    <<"X","-","S","l","a","c","k","-","S","i","g","n","a","t","u","r","e">>

\* Faulty variant used to test C4: the loop visits the signature header first
required_headers_swapped ==
    <<XSlackSignature, XSlackRequestTimestamp>>

required_headers ==
    <<XSlackRequestTimestamp, XSlackSignature>>

\* the text of the three ForbiddenException messages
MissingPrefix ==
    <<"m","i","s","s","i","n","g"," ","r","e","q","u","i","r","e","d"," ","h","e","a","d","e","r"," ","\"">>

\* Faulty variant used to test C2: the message does not interpolate the header's name
MissingMessageUnnamed(required_header) ==
    MissingPrefix \o <<"\"">>

MissingMessage(required_header) ==
    MissingPrefix \o required_header \o <<"\"">>

InvalidMessage ==
    <<"X","-","S","l","a","c","k","-","S","i","g","n","a","t","u","r","e"," ","w","a","s"," ","i","n","v","a","l","i","d">>

\* Faulty variant used to test C9: the stale timestamp is reported with the signature's message
TooOldMessageShared ==
    InvalidMessage

TooOldMessage ==
    <<"X","-","S","l","a","c","k","-","R","e","q","u","e","s","t","-","T","i","m","e","s","t","a","m","p"," ","i","s"," ","t","o","o"," ","o","l","d">>

-----------------------------------------------------------------------------
(* int(str) and str(int) *)

DigitChars ==
    <<"0","1","2","3","4","5","6","7","8","9">>

IsDigit(c) ==
    \E i \in 1..10 : DigitChars[i] = c

DigitVal(c) ==
    (CHOOSE i \in 1..10 : DigitChars[i] = c) - 1

IsSpace(c) ==
    c \in {" ", "\t", "\n", "\r"}

RECURSIVE LStrip(_)
LStrip(s) ==
    IF s # <<>> /\ IsSpace(Head(s)) THEN LStrip(Tail(s)) ELSE s

RECURSIVE RStrip(_)
RStrip(s) ==
    IF s # <<>> /\ IsSpace(s[Len(s)]) THEN RStrip(SubSeq(s, 1, Len(s) - 1)) ELSE s

Strip(s) ==
    RStrip(LStrip(s))

\* the digits of an int literal: digits, single underscores only between digits
WellFormedDigits(d) ==
    /\ d # <<>>
    /\ \A i \in 1..Len(d) : IsDigit(d[i]) \/ d[i] = "_"
    /\ d[1] # "_"
    /\ d[Len(d)] # "_"
    /\ \A i \in 1..(Len(d) - 1) : ~(d[i] = "_" /\ d[i + 1] = "_")

RECURSIVE DigitsValue(_, _)
DigitsValue(d, acc) ==
    IF d = <<>> THEN acc
    ELSE IF Head(d) = "_" THEN DigitsValue(Tail(d), acc)
    ELSE DigitsValue(Tail(d), acc * 10 + DigitVal(Head(d)))

\* int(s) for a str s: surrounding whitespace is dropped, one sign is
\* allowed, leading zeros are allowed; anything else raises ValueError
ParseInt(s) ==
    LET t == Strip(s)
        signed == t # <<>> /\ t[1] \in {"+", "-"}
        d == IF signed THEN Tail(t) ELSE t
    IN  IF WellFormedDigits(d)
        THEN [ok |-> TRUE,
              value |-> IF signed /\ t[1] = "-"
                        THEN 0 - DigitsValue(d, 0) ELSE DigitsValue(d, 0)]
        ELSE [ok |-> FALSE, value |-> 0]

RECURSIVE StrNat(_)
StrNat(n) ==
    IF n < 10 THEN <<DigitChars[n + 1]>>
    ELSE StrNat(n \div 10) \o <<DigitChars[(n % 10) + 1]>>

\* f"{n}" for an int n
Str(n) ==
    IF n < 0 THEN <<"-">> \o StrNat(0 - n) ELSE StrNat(n)

-----------------------------------------------------------------------------
(* HMAC-SHA256 *)

\* hmac.new(key, msg, sha256).hexdigest(): the digest is a term over key and
\* msg, so that two digests are equal exactly when key and message are
\* (no key of the model holds the separator)
HmacSha256Hex(key, msg) ==
    <<"{">> \o key \o <<"|">> \o msg \o <<"}">>

\* hmac.compare_digest(a.encode(), b.encode()): equality of the encoded
\* bytes, and str.encode is one-to-one
CompareDigest(a, b) ==
    a = b

-----------------------------------------------------------------------------
(* SlackAuthenticationCheck.__call__ *)

\* dict.get(key, default)
Get(d, key, default) ==
    IF key \in DOMAIN d THEN d[key] ELSE default

EmptyDict ==
    <<>>

Accepted ==
    [kind |-> "Accepted", reason |-> <<>>]

Forbidden(message) ==
    [kind |-> "ForbiddenException", reason |-> message]

Raised(exception) ==
    [kind |-> exception, reason |-> <<>>]

\* the for loop over the required headers: the first one that is missing
MissingHeaders(required, headers) ==
    {i \in 1..Len(required) : required[i] \notin DOMAIN headers}

FirstMissing(required, headers) ==
    required[CHOOSE i \in MissingHeaders(required, headers) :
                \A j \in MissingHeaders(required, headers) : i <= j]

\* Faulty variant used to test C1: the body is left out of the signed string
RawSignatureWithoutBody(version, timestamp, body) ==
    version \o <<":">> \o Str(timestamp) \o <<":">>

\* f"{version}:{timestamp}:{body}" with timestamp the parsed int
RawSignature(version, timestamp, body) ==
    version \o <<":">> \o Str(timestamp) \o <<":">> \o body

\* f"{version}={hexdigest}"
Signature(secret, version, timestamp, body) ==
    version \o <<"=">> \o HmacSha256Hex(secret, RawSignature(version, timestamp, body))

\* Faulty variant used to test C3: <= in place of <
StaleInclusive(timestamp, time, request_leeway) ==
    timestamp <= (time - request_leeway)

\* timestamp < (time.time() - self.request_leeway)
Stale(timestamp, time, request_leeway) ==
    timestamp < (time - request_leeway)

\* SlackAuthenticationCheck.__call__(self, request) when time.time() is time
Authenticate(self, req, time) ==
    LET headers == Get(req, "headers", EmptyDict)
    IN  IF MissingHeaders(required_headers, headers) # {}
        THEN Forbidden(MissingMessage(FirstMissing(required_headers, headers)))
        ELSE LET parsed == ParseInt(headers[XSlackRequestTimestamp])
                 timestamp == parsed.value
             IN  IF ~parsed.ok THEN Raised("ValueError")
                 ELSE IF Stale(timestamp, time, self.request_leeway)
                 THEN Forbidden(TooOldMessage)
                 ELSE IF "body" \notin DOMAIN req THEN Raised("KeyError")
                 ELSE IF ~CompareDigest(
                            Signature(self.secret, self.version, timestamp, req.body),
                            headers[XSlackSignature])
                 THEN Forbidden(InvalidMessage)
                 ELSE Accepted

-----------------------------------------------------------------------------
(* urllib.parse.parse_qs *)

\* s.split(sep): the pieces of s between the occurrences of the character sep
RECURSIVE Split(_, _)
Split(s, sep) ==
    IF \A i \in 1..Len(s) : s[i] # sep THEN <<s>>
    ELSE LET i == CHOOSE k \in 1..Len(s) :
                      s[k] = sep /\ \A j \in 1..(k - 1) : s[j] # sep
         IN  <<SubSeq(s, 1, i - 1)>> \o Split(SubSeq(s, i + 1, Len(s)), sep)

\* s.split(sep, 1): at most two pieces
SplitOnce(s, sep) ==
    IF \A i \in 1..Len(s) : s[i] # sep THEN <<s>>
    ELSE LET i == CHOOSE k \in 1..Len(s) :
                      s[k] = sep /\ \A j \in 1..(k - 1) : s[j] # sep
         IN  <<SubSeq(s, 1, i - 1), SubSeq(s, i + 1, Len(s))>>

\* s.replace('+', ' ')
PlusToSpace(s) ==
    [i \in 1..Len(s) |-> IF s[i] = "+" THEN " " ELSE s[i]]

\* the percent escapes the bodies of the model use
PercentTable ==
    (<<"2","0">> :> " ") @@ (<<"2","1">> :> "!") @@ (<<"2","F">> :> "/")

\* urllib.parse.unquote: %XX becomes the character it encodes
RECURSIVE Unquote(_)
Unquote(s) ==
    IF s = <<>> THEN <<>>
    ELSE IF Head(s) = "%" /\ Len(s) >= 3 /\ SubSeq(s, 2, 3) \in DOMAIN PercentTable
    THEN <<PercentTable[SubSeq(s, 2, 3)]>> \o Unquote(SubSeq(s, 4, Len(s)))
    ELSE <<Head(s)>> \o Unquote(Tail(s))

\* parse_qsl with keep_blank_values=False, strict_parsing=False: the
\* (name, value) pairs in order; a field with no "=" or a blank value is skipped
RECURSIVE PairsOf(_)
PairsOf(fields) ==
    IF fields = <<>> THEN <<>>
    ELSE LET nv == SplitOnce(Head(fields), "=")
         IN  IF Len(nv) = 2 /\ Len(nv[2]) > 0
             THEN <<<<Unquote(PlusToSpace(nv[1])), Unquote(PlusToSpace(nv[2]))>>>>
                      \o PairsOf(Tail(fields))
             ELSE PairsOf(Tail(fields))

ParseQsl(qs) ==
    PairsOf(Split(qs, "&"))

RECURSIVE ValuesOf(_, _)
ValuesOf(pairs, name) ==
    IF pairs = <<>> THEN <<>>
    ELSE IF Head(pairs)[1] = name
    THEN <<Head(pairs)[2]>> \o ValuesOf(Tail(pairs), name)
    ELSE ValuesOf(Tail(pairs), name)

\* parse_qs: each name mapped to the list of its values, in order
ParseQs(qs) ==
    LET pairs == ParseQsl(qs)
    IN  [name \in {pairs[i][1] : i \in 1..Len(pairs)} |-> ValuesOf(pairs, name)]

-----------------------------------------------------------------------------
(* json.dumps *)

\* the body of a JSON string: quote, backslash and newline are escaped
RECURSIVE JsonEscape(_)
JsonEscape(s) ==
    IF s = <<>> THEN <<>>
    ELSE (CASE Head(s) = "\"" -> <<"\\", "\"">>
            [] Head(s) = "\\" -> <<"\\", "\\">>
            [] Head(s) = "\n" -> <<"\\", "n">>
            [] OTHER -> <<Head(s)>>) \o JsonEscape(Tail(s))

JsonString(s) ==
    <<"\"">> \o JsonEscape(s) \o <<"\"">>

\* json.dumps of a tuple of str: a JSON array, items separated by ", "
RECURSIVE JsonItems(_)
JsonItems(items) ==
    IF items = <<>> THEN <<>>
    ELSE IF Len(items) = 1 THEN JsonString(Head(items))
    ELSE JsonString(Head(items)) \o <<",", " ">> \o JsonItems(Tail(items))

JsonDumpsArray(items) ==
    <<"[">> \o JsonItems(items) \o <<"]">>

\* json.dumps of a dict of str to str, given as its (key, value) pairs in order
RECURSIVE JsonMembers(_)
JsonMembers(pairs) ==
    IF pairs = <<>> THEN <<>>
    ELSE LET member == JsonString(Head(pairs)[1]) \o <<":", " ">>
                           \o JsonString(Head(pairs)[2])
         IN  IF Len(pairs) = 1 THEN member
             ELSE member \o <<",", " ">> \o JsonMembers(Tail(pairs))

JsonDumpsObject(pairs) ==
    <<"{">> \o JsonMembers(pairs) \o <<"}">>

\* json.loads of the text of a JSON string body: the escapes undone
RECURSIVE JsonUnescape(_)
JsonUnescape(s) ==
    IF s = <<>> THEN <<>>
    ELSE IF Head(s) = "\\" /\ Len(s) >= 2
    THEN <<(IF s[2] = "n" THEN "\n" ELSE s[2])>> \o JsonUnescape(SubSeq(s, 3, Len(s)))
    ELSE <<Head(s)>> \o JsonUnescape(Tail(s))

\* json.loads of a JSON array holding one string, as the tests read a 403 body
JsonLoadsArray(text) ==
    IF /\ Len(text) >= 4
       /\ SubSeq(text, 1, 2) = <<"[", "\"">>
       /\ SubSeq(text, Len(text) - 1, Len(text)) = <<"\"", "]">>
    THEN <<JsonUnescape(SubSeq(text, 3, Len(text) - 2))>>
    ELSE <<>>

-----------------------------------------------------------------------------
(* aws_lambda.py *)

SIGNING_SECRET ==
    <<"S","I","G","N","I","N","G","_","S","E","C","R","E","T">>

TableName ==
    <<"C","u","r","t","i","s","C","o","m","p","l","a","i","n","t","s">>

TextField ==
    <<"t","e","x","t">>

UserNameField ==
    <<"u","s","e","r","_","n","a","m","e">>

ComplainedText ==
    <<"*","C","u","r","t","i","s"," ","C","o","m","p","l","a","i","n","e","d","!","*","\n","\n",">"," ">>

CountPrefix ==
    <<"\n","\n","C","u","r","t","i","s"," ","h","a","s"," ","*">>

CountSuffix ==
    <<"*"," ","r","e","c","o","r","d","e","d"," ","c","o","m","p","l","a","i","n","t","s",".">>

ResponseTypeKey ==
    <<"r","e","s","p","o","n","s","e","_","t","y","p","e">>

InChannel ==
    <<"i","n","_","c","h","a","n","n","e","l">>

\* _authentication_check(request): the header loop, the signature check
\* against os.environ["SIGNING_SECRET"] with the version "v0", and no check
\* of the timestamp against the current time
AuthenticationCheck(req, env) ==
    LET headers == Get(req, "headers", EmptyDict)
    IN  IF MissingHeaders(required_headers, headers) # {}
        THEN Forbidden(MissingMessage(FirstMissing(required_headers, headers)))
        ELSE IF SIGNING_SECRET \notin DOMAIN env THEN Raised("KeyError")
        ELSE LET parsed == ParseInt(headers[XSlackRequestTimestamp])
             IN  IF ~parsed.ok THEN Raised("ValueError")
                 ELSE IF "body" \notin DOMAIN req THEN Raised("KeyError")
                 ELSE IF ~CompareDigest(
                            Signature(env[SIGNING_SECRET], <<"v","0">>,
                                      parsed.value, req.body),
                            headers[XSlackSignature])
                 THEN Forbidden(InvalidMessage)
                 ELSE Accepted

\* ForbiddenException.as_response
AsResponse(args) ==
    [kind |-> "return", statusCode |-> 403, headers |-> EmptyDict,
     body |-> JsonDumpsArray(args)]

\* an exception that leaves lambda_handler
Escaped(exception) ==
    [kind |-> exception, statusCode |-> 0, headers |-> EmptyDict, body |-> <<>>]

\* the Item of dynamodb.put_item
Item(uuid, time, command_text, reporter) ==
    [uuid |-> [S |-> uuid],
     timestamp |-> [N |-> Str(time)],
     complaint |-> [S |-> command_text],
     reporter |-> [S |-> reporter]]

PutItem(item) ==
    [op |-> "put_item", TableName |-> TableName, Item |-> item, Count |-> 0]

Scan(count) ==
    [op |-> "scan", TableName |-> TableName, Item |-> <<>>, Count |-> count]

OkResponse(command_text, count) ==
    [kind |-> "return", statusCode |-> 200, headers |-> EmptyDict,
     body |-> JsonDumpsObject(<<
         <<ResponseTypeKey, InChannel>>,
         <<TextField, ComplainedText \o command_text
                          \o CountPrefix \o Str(count) \o CountSuffix>> >>)]

\* Faulty variant used to test C11: the table is scanned before the
\* complaint is stored
ProcessScansBeforePut(event, time, uuid, items, others) ==
    LET parsed_body == ParseQs(event.body)
        request_body == [k \in DOMAIN parsed_body |-> parsed_body[k][1]]
        command_text == Get(request_body, TextField, <<>>)
    IN  IF UserNameField \notin DOMAIN request_body
        THEN [response |-> Escaped("KeyError"), calls |-> <<>>, table |-> items]
        ELSE [response |-> OkResponse(command_text, items + others),
              calls |-> <<Scan(items + others),
                          PutItem(Item(uuid, time, command_text,
                                       request_body[UserNameField]))>>,
              table |-> items + others + 1]

\* lambda_handler after the authentication check has passed: the body is
\* parsed, the complaint stored, the table scanned and the reply built.
\* The table holds items records before; others records are put by other
\* writers between this put_item and this scan, and the scan counts them all
Process(event, time, uuid, items, others) ==
    LET parsed_body == ParseQs(event.body)
        request_body == [k \in DOMAIN parsed_body |-> parsed_body[k][1]]
        command_text == Get(request_body, TextField, <<>>)
    IN  IF UserNameField \notin DOMAIN request_body
        THEN [response |-> Escaped("KeyError"), calls |-> <<>>, table |-> items]
        ELSE [response |-> OkResponse(command_text, items + 1 + others),
              calls |-> <<PutItem(Item(uuid, time, command_text,
                                       request_body[UserNameField])),
                          Scan(items + 1 + others)>>,
              table |-> items + 1 + others]

\* Faulty variant used to test C6: the table is scanned before the result of
\* the authentication check is looked at
LambdaHandlerScansFirst(event, env, time, uuid, items, others) ==
    LET auth == AuthenticationCheck(event, env)
    IN  IF auth.kind = "ForbiddenException"
        THEN [response |-> AsResponse(<<auth.reason>>),
              calls |-> <<Scan(items)>>, table |-> items]
        ELSE IF auth.kind # "Accepted"
        THEN [response |-> Escaped(auth.kind), calls |-> <<Scan(items)>>,
              table |-> items]
        ELSE Process(event, time, uuid, items, others)

\* lambda_handler(event): what it returns or raises, the dynamodb calls it
\* makes in order, and the table size it leaves
LambdaHandler(event, env, time, uuid, items, others) ==
    LET auth == AuthenticationCheck(event, env)
    IN  IF auth.kind = "ForbiddenException"
        THEN [response |-> AsResponse(<<auth.reason>>), calls |-> <<>>,
              table |-> items]
        ELSE IF auth.kind # "Accepted"
        THEN [response |-> Escaped(auth.kind), calls |-> <<>>, table |-> items]
        ELSE Process(event, time, uuid, items, others)

-----------------------------------------------------------------------------
(* The requests the environment sends *)

Secrets ==
    {<<"k","1">>, <<"k","2">>}

Versions ==
    {DefaultVersion, <<"v","1">>}

\* (version, request_leeway) of the instances built: the defaults, and another
Settings ==
    {<<DefaultVersion, DefaultLeeway>>, <<<<"v","1">>, 0>>}

Bodies ==
    {<<"t","e","x","t","=","h","i","&","u","s","e","r","_","n","a","m","e","=","a","l">>,
     <<"t","e","x","t","=","&","u","s","e","r","_","n","a","m","e","=","a","l">>,
     <<"t","e","x","t","=","a","+","b","%","2","1","&","t","e","x","t","=","c">>,
     <<"t","e","x","t","=","h","i","&","u","s","e","r","_","n","a","m","e","=">>}

\* how many records other writers may put between the put_item and the scan
\* of one invocation
OtherWrites ==
    {0, 1}

\* uuid.uuid4() draws from these
Uuids ==
    {<<"u","1">>, <<"u","2">>}

\* timestamps around the two staleness limits (leeway 300 and leeway 0), and
\* one far in the future
TimestampValues ==
    {Epoch - DefaultLeeway - 1, Epoch - DefaultLeeway, Epoch - 1, Epoch,
     Epoch + 10000}

\* other texts int() reads as the same number
Spellings(n) ==
    {<<"0">> \o Str(n), <<"+">> \o Str(n), <<" ">> \o Str(n) \o <<" ">>}

TimestampTexts ==
    {Str(n) : n \in TimestampValues}
        \cup UNION {Spellings(n) : n \in {Epoch - DefaultLeeway, Epoch}}

\* texts int() rejects
MalformedTimestamps ==
    {<<>>, <<"1","2","a">>}

Headers(timestamp_text, signature) ==
    (XSlackRequestTimestamp :> timestamp_text) @@ (XSlackSignature :> signature)

MakeRequest(headers, body) ==
    ("headers" :> headers) @@ ("body" :> body)

\* the signature a sender holding secret computes over the timestamp text it
\* sends and the body
SenderSignature(secret, version, timestamp_text, body) ==
    version \o <<"=">>
        \o HmacSha256Hex(secret, version \o <<":">> \o timestamp_text \o <<":">> \o body)

Senders ==
    [secret : Secrets, version : Versions, timestamp : TimestampTexts, body : Bodies]

Signed(g) ==
    MakeRequest(Headers(g.timestamp,
                        SenderSignature(g.secret, g.version, g.timestamp, g.body)),
                g.body)

LowerCaseHeaders(h) ==
    (<<"x","-","s","l","a","c","k","-","r","e","q","u","e","s","t","-","t","i","m","e","s","t","a","m","p">>
         :> h[XSlackRequestTimestamp])
    @@ (<<"x","-","s","l","a","c","k","-","s","i","g","n","a","t","u","r","e">>
         :> h[XSlackSignature])

\* a signed request as sent, and what an attacker or a faulty proxy makes of it
Variants(g) ==
    LET r == Signed(g)
        h == r.headers
        sig == h[XSlackSignature]
    IN  {r}
        \cup {MakeRequest(h, b) : b \in Bodies}
        \cup {MakeRequest(Headers(t, sig), g.body) :
                 t \in {Str(Epoch), <<"0">> \o Str(Epoch), Str(Epoch + 10000)}
                           \cup MalformedTimestamps}
        \cup {MakeRequest(Headers(g.timestamp, <<"v","0","=","b","a","d">>), g.body)}
        \cup {MakeRequest((XSlackRequestTimestamp :> t), g.body) :
                 t \in {g.timestamp} \cup MalformedTimestamps}
        \cup {MakeRequest((XSlackSignature :> sig), g.body),
              MakeRequest((XSlackSignature :> sig), g.body),
              MakeRequest(EmptyDict, g.body),
              MakeRequest(LowerCaseHeaders(h), g.body),
              ("body" :> g.body),
              ("headers" :> h)}

Requests ==
    UNION {Variants(g) : g \in Senders}

-----------------------------------------------------------------------------
(* The state machine *)

NoRequest ==
    EmptyDict

\* no call is under way: no clock value has been read
NoTime ==
    0 - 1

NoOutcome ==
    [kind |-> "none", reason |-> <<>>]

NoResponse ==
    [kind |-> "none", statusCode |-> 0, headers |-> EmptyDict, body |-> <<>>]

\* SlackAuthenticationCheck.__init__ and the environment of the Lambda
\* process, both given the one provisioned signing secret
Init ==
    /\ \E secret \in Secrets, setting \in Settings :
          /\ check = [secret |-> secret, version |-> setting[1],
                      request_leeway |-> setting[2]]
          /\ environ = (SIGNING_SECRET :> secret)
    /\ clock = Epoch
    /\ request = NoRequest
    /\ pc = "idle"
    /\ now = NoTime
    /\ outcome = NoOutcome
    /\ response = NoResponse
    /\ calls = <<>>
    /\ table = 0

\* a second passes
Tick ==
    /\ clock < Epoch + MaxTicks
    /\ clock' = clock + 1
    /\ UNCHANGED <<check, environ, request, pc, now, outcome, response, calls, table>>

\* a request arrives
Receive ==
    /\ pc = "idle"
    /\ \E r \in Requests : request' = r
    /\ pc' = "received"
    /\ UNCHANGED <<check, environ, clock, now, outcome, response, calls, table>>

\* Faulty variant used to test C8: the call writes the parsed timestamp back into the request
CallNormalising ==
    /\ pc = "received"
    /\ now' = clock
    /\ outcome' = Authenticate(check, request, clock)
    /\ request' =
          LET headers == Get(request, "headers", EmptyDict)
          IN  IF /\ XSlackRequestTimestamp \in DOMAIN headers
                 /\ ParseInt(headers[XSlackRequestTimestamp]).ok
              THEN [request EXCEPT !["headers"][XSlackRequestTimestamp] =
                       Str(ParseInt(headers[XSlackRequestTimestamp]).value)]
              ELSE request
    /\ pc' = "checked"
    /\ UNCHANGED <<check, environ, clock, response, calls, table>>

\* check(request): SlackAuthenticationCheck.__call__, which assigns neither
\* to self nor to the request
Call ==
    /\ pc = "received"
    /\ now' = clock
    /\ outcome' = Authenticate(check, request, clock)
    /\ pc' = "checked"
    /\ UNCHANGED <<check, environ, clock, request, response, calls, table>>

\* lambda_handler(request), while other writers may put records of their own
Handle ==
    /\ pc = "received"
    /\ \E uuid \in Uuids, others \in OtherWrites :
          LET result == LambdaHandler(request, environ, clock, uuid, table, others)
          IN  /\ result.table <= MaxItems
              /\ response' = result.response
              /\ calls' = result.calls
              /\ table' = result.table
    /\ now' = clock
    /\ pc' = "handled"
    /\ UNCHANGED <<check, environ, clock, request, outcome>>

\* the caller is done with the result
Return ==
    /\ pc \in {"checked", "handled"}
    /\ pc' = "idle"
    /\ request' = NoRequest
    /\ outcome' = NoOutcome
    /\ response' = NoResponse
    /\ calls' = <<>>
    /\ now' = NoTime
    /\ UNCHANGED <<check, environ, clock, table>>

Next ==
    \/ Tick
    \/ Receive
    \/ Call
    \/ Handle
    \/ Return

Spec ==
    Init /\ [][Next]_vars

-----------------------------------------------------------------------------
(* What the claims speak of, read off the state after check(request) *)

Checked ==
    pc = "checked"

SentHeaders ==
    Get(request, "headers", EmptyDict)

HasBothHeaders ==
    /\ XSlackRequestTimestamp \in DOMAIN SentHeaders
    /\ XSlackSignature \in DOMAIN SentHeaders

TimestampText ==
    SentHeaders[XSlackRequestTimestamp]

HasIntegerTimestamp ==
    HasBothHeaders /\ ParseInt(TimestampText).ok

TimestampValue ==
    ParseInt(TimestampText).value

HasBody ==
    "body" \in DOMAIN request

IsTooOld ==
    TimestampValue < now - check.request_leeway

\* "{version}=" and the HMAC, keyed with the instance's secret, of
\* "{version}:{timestamp}:{body}", the timestamp in decimal
ExpectedOver(timestamp_text) ==
    check.version \o <<"=">>
        \o HmacSha256Hex(check.secret,
               check.version \o <<":">> \o timestamp_text \o <<":">> \o request.body)

SignatureMatches ==
    SentHeaders[XSlackSignature] = ExpectedOver(Str(TimestampValue))

\* the supplied signature is the one sender g computed
SuppliedBy(g) ==
    SentHeaders[XSlackSignature]
        = SenderSignature(g.secret, g.version, g.timestamp, g.body)

-----------------------------------------------------------------------------
(* C1 *)

\* C1: a request with both headers, an integer timestamp that is not stale
\* and a body is accepted if and only if its X-Slack-Signature equals
\* "{version}=" followed by the HMAC-SHA256 hex digest, keyed with the signing
\* secret, of "{version}:{timestamp}:{body}"; otherwise the rejection is the
\* signature-invalid one.  In particular a signature computed by a sender
\* over another body, another timestamp, or with another secret or version
\* is rejected as invalid.
C1_AcceptsIffSignatureMatches ==
    (Checked /\ HasIntegerTimestamp /\ ~IsTooOld /\ HasBody) =>
        /\ (outcome = Accepted) <=> SignatureMatches
        /\ (outcome # Accepted) => outcome = Forbidden(InvalidMessage)
        /\ \A g \in Senders :
              (/\ SuppliedBy(g)
               /\ \/ g.body # request.body
                  \/ ParseInt(g.timestamp).value # TimestampValue
                  \/ g.secret # check.secret
                  \/ g.version # check.version)
                  => outcome = Forbidden(InvalidMessage)

\* C1 witness: a fresh request whose body was changed after the holder of the
\* instance's secret signed it has been checked and rejected as invalid
C1_Witness ==
    /\ Checked /\ HasIntegerTimestamp /\ ~IsTooOld /\ HasBody
    /\ \E g \in Senders :
          /\ SuppliedBy(g)
          /\ g.secret = check.secret /\ g.version = check.version
          /\ g.timestamp = TimestampText
          /\ g.body # request.body
    /\ outcome = Forbidden(InvalidMessage)

-----------------------------------------------------------------------------
(* C2 *)

\* C2: when X-Slack-Request-Timestamp or X-Slack-Signature is absent from the
\* headers (by exact name; a request without a headers field included), the
\* check rejects with a reason that names a header that is missing
C2_MissingHeaderRejected ==
    (Checked /\ ~HasBothHeaders) =>
        /\ outcome.kind = "ForbiddenException"
        /\ \E i \in 1..Len(required_headers) :
              /\ required_headers[i] \notin DOMAIN SentHeaders
              /\ outcome.reason
                    = <<"m","i","s","s","i","n","g"," ","r","e","q","u","i","r","e","d"," ","h","e","a","d","e","r"," ","\"">>
                          \o required_headers[i] \o <<"\"">>

\* C2 witness: a request whose headers are spelled in lower case has been
\* checked and rejected
C2_Witness ==
    /\ Checked
    /\ DOMAIN SentHeaders # {}
    /\ ~HasBothHeaders
    /\ XSlackSignature \notin DOMAIN SentHeaders
    /\ XSlackRequestTimestamp \notin DOMAIN SentHeaders
    /\ outcome.kind = "ForbiddenException"

-----------------------------------------------------------------------------
(* C3 *)

\* C3: with both headers and an integer timestamp the check rejects as too
\* old exactly when timestamp < current_time - leeway; a timestamp equal to
\* current_time - leeway passes, and a timestamp after current_time is never
\* rejected as stale: its outcome is decided by the signature
C3_StaleExactlyWhenOlderThanLeeway ==
    (Checked /\ HasIntegerTimestamp) =>
        /\ (outcome = Forbidden(TooOldMessage))
              <=> (TimestampValue < now - check.request_leeway)
        /\ (TimestampValue = now - check.request_leeway /\ HasBody)
              => ((outcome = Accepted) <=> SignatureMatches)
        /\ (TimestampValue > now /\ HasBody)
              => /\ (outcome = Accepted) <=> SignatureMatches
                 /\ (outcome = Forbidden(InvalidMessage)) <=> ~SignatureMatches

\* C3 witness: a request stamped exactly current_time - leeway has been accepted
C3_Witness ==
    /\ Checked /\ HasIntegerTimestamp
    /\ TimestampValue = now - check.request_leeway
    /\ outcome = Accepted

-----------------------------------------------------------------------------
(* C4 *)

\* C4: the reason is that of the earliest failing check: both headers missing
\* names X-Slack-Request-Timestamp; a missing header is reported even when
\* the timestamp present is stale or no integer; a stale timestamp is
\* reported even when the signature is wrong too
C4_EarliestFailureReported ==
    Checked =>
        /\ (/\ XSlackRequestTimestamp \notin DOMAIN SentHeaders
            /\ XSlackSignature \notin DOMAIN SentHeaders)
              => outcome = Forbidden(MissingMessage(XSlackRequestTimestamp))
        /\ (/\ XSlackRequestTimestamp \in DOMAIN SentHeaders
            /\ XSlackSignature \notin DOMAIN SentHeaders)
              => outcome = Forbidden(MissingMessage(XSlackSignature))
        /\ (HasIntegerTimestamp /\ IsTooOld)
              => outcome = Forbidden(TooOldMessage)

\* C4 witness: a request that is stale and whose signature is wrong as well
\* has been rejected
C4_Witness ==
    /\ Checked /\ HasIntegerTimestamp /\ IsTooOld /\ HasBody
    /\ ~SignatureMatches
    /\ outcome.kind = "ForbiddenException"

\* a second case of C4: no signature header and a timestamp that is no integer
C4_MalformedAndMissing ==
    /\ Checked
    /\ XSlackRequestTimestamp \in DOMAIN SentHeaders
    /\ XSlackSignature \notin DOMAIN SentHeaders
    /\ ~ParseInt(TimestampText).ok
    /\ outcome.kind = "ForbiddenException"

-----------------------------------------------------------------------------
(* C5 *)

\* C5: every call of the check ends Accepted or Rejected with a reason
\* (ForbiddenException), whatever the request; no other error leaves it
C5_DefiniteOutcome ==
    Checked => outcome.kind \in {"Accepted", "ForbiddenException"}

-----------------------------------------------------------------------------
(* C6 *)

Handled ==
    pc = "handled"

-----------------------------------------------------------------------------
(* C7 *)

\* the instance the claim compares with: the handler's secret, the defaults
DefaultCheck ==
    [secret |-> environ[SIGNING_SECRET], version |-> DefaultVersion,
     request_leeway |-> DefaultLeeway]

\* C7: lambda_handler stores a record and returns 200 only if
\* SlackAuthenticationCheck, built with the same secret and the defaults "v0"
\* and 300, accepts the request at the same current time
C7_HandlerProcessesOnlyAccepted ==
    (Handled /\ (response.statusCode = 200 \/ calls # <<>>)) =>
        Authenticate(DefaultCheck, request, now) = Accepted

-----------------------------------------------------------------------------
(* C8 *)

\* C8: a call of the check changes neither the instance (secret, version,
\* request_leeway) nor the request passed in, and no other step changes the
\* instance; the outcome is computed from these and the clock alone
C8_NoHiddenState ==
    [][/\ check' = check
       /\ (pc = "received" /\ pc' = "checked") =>
             /\ request' = request
             /\ outcome' = Authenticate(check', request', now')]_vars

\* C8 witness: a request whose timestamp is not spelled the way the code
\* renders it has been checked, and the request still holds it as sent
C8_Witness ==
    /\ Checked /\ HasIntegerTimestamp
    /\ TimestampText # Str(TimestampValue)
    /\ outcome.kind = "ForbiddenException"

-----------------------------------------------------------------------------
(* C9 *)

\* C9: a rejection's reason tells which check failed: the missing header's
\* name, the too-old message for a stale timestamp, the invalid-signature
\* message for a mismatch; no reason serves two kinds of failure, and the
\* invalid-signature message is the same whatever the signatures are
C9_ReasonIdentifiesCheck ==
    (Checked /\ outcome.kind = "ForbiddenException") =>
        /\ \/ /\ ~HasBothHeaders
              /\ \E i \in 1..Len(required_headers) :
                    /\ required_headers[i] \notin DOMAIN SentHeaders
                    /\ outcome.reason = MissingMessage(required_headers[i])
           \/ /\ HasIntegerTimestamp /\ IsTooOld
              /\ outcome.reason = TooOldMessage
           \/ /\ HasIntegerTimestamp /\ ~IsTooOld /\ HasBody /\ ~SignatureMatches
              /\ outcome.reason = InvalidMessage
        /\ (outcome.reason = InvalidMessage) => (HasIntegerTimestamp /\ ~IsTooOld)
        /\ (outcome.reason = TooOldMessage) => (HasIntegerTimestamp /\ IsTooOld)
        /\ (\E i \in 1..Len(required_headers) :
               outcome.reason = MissingMessage(required_headers[i]))
              => ~HasBothHeaders

\* C9 witness: a request with a wrong signature has been rejected, with the
\* invalid-signature message
C9_Witness ==
    /\ Checked /\ HasIntegerTimestamp /\ ~IsTooOld /\ HasBody
    /\ SentHeaders[XSlackSignature] = <<"v","0","=","b","a","d">>
    /\ outcome = Forbidden(InvalidMessage)

-----------------------------------------------------------------------------
(* C10 *)

\* C10: the signed string holds the timestamp header as received: a fresh
\* request whose signature was computed over "{version}:{raw header}:{body}"
\* is accepted, however the integer is spelled in the header
C10_RawTimestampSigned ==
    (/\ Checked /\ HasIntegerTimestamp /\ ~IsTooOld /\ HasBody
     /\ SentHeaders[XSlackSignature] = ExpectedOver(TimestampText))
        => outcome = Accepted

-----------------------------------------------------------------------------
(* C11 *)

\* the fields lambda_handler reads from a body: the first value of each name
BodyFields(body) ==
    [k \in DOMAIN ParseQs(body) |-> ParseQs(body)[k][1]]

\* the body holds a name=value field of that name, whatever the value
CarriesField(body, name) ==
    \E i \in 1..Len(Split(body, "&")) :
        LET nv == SplitOnce(Split(body, "&")[i], "=")
        IN  Len(nv) = 2 /\ Unquote(PlusToSpace(nv[1])) = name

PassesHandlerCheck ==
    HasBody /\ AuthenticationCheck(request, environ) = Accepted

\* what one invocation does with such a request: one put_item of the
\* complaint and the reporter, then one scan, then status 200 with the
\* scan's Count in the text, the Count covering the record just stored
StoredThenCounted ==
    /\ Len(calls') = 2
    /\ calls'[1].op = "put_item"
    /\ calls'[1].Item.complaint.S = Get(BodyFields(request.body), TextField, <<>>)
    /\ calls'[1].Item.reporter.S = BodyFields(request.body)[UserNameField]
    /\ calls'[2].op = "scan"
    /\ response'.kind = "return"
    /\ response'.statusCode = 200
    /\ response'.body = JsonDumpsObject(<<
           <<ResponseTypeKey, InChannel>>,
           <<TextField, ComplainedText
                            \o Get(BodyFields(request.body), TextField, <<>>)
                            \o CountPrefix \o Str(calls'[2].Count) \o CountSuffix>> >>)
    /\ calls'[2].Count >= table + 1
    /\ table' >= table + 1

\* C11 as stated: for every request that passes the handler's authentication
\* check and carries a user_name field, one invocation performs exactly one
\* put_item (complaint the text field, empty when absent; reporter the
\* user_name), then exactly one scan, and returns 200 with that scan's Count,
\* which includes the record just stored
C11_EveryUserNameStored ==
    [][(/\ pc = "received" /\ pc' = "handled"
        /\ PassesHandlerCheck
        /\ CarriesField(request.body, UserNameField)) => StoredThenCounted]_vars

\* C11 amended: the same, for every request that passes the handler's
\* authentication check and carries a user_name field whose value is not empty
C11_NonEmptyUserNameStored ==
    [][(/\ pc = "received" /\ pc' = "handled"
        /\ PassesHandlerCheck
        /\ UserNameField \in DOMAIN BodyFields(request.body)) => StoredThenCounted]_vars

\* C11 witness: a complaint with a text has been stored and answered with a
\* count of two or more records
C11_Witness ==
    /\ Handled /\ PassesHandlerCheck
    /\ UserNameField \in DOMAIN BodyFields(request.body)
    /\ response.statusCode = 200
    /\ Len(calls) = 2
    /\ calls[1].Item.complaint.S # <<>>
    /\ calls[2].Count = table
    /\ calls[2].Count >= 2

=============================================================================
